---- MODULE Spec2Model ----
(***************************************************************************)
(* Gap collection (generate-missing-gameweeks.py) and identity matching    *)
(* (understat.py, match_ids) of the Fantasy-Premier-League data tools.     *)
(*                                                                         *)
(* A Python str is a sequence of one-character strings, so that slicing,   *)
(* startswith/endswith, concatenation, int() and str() are computed on the *)
(* characters rather than assumed.                                         *)
(***************************************************************************)
EXTENDS Integers, Sequences, FiniteSets, TLC

VARIABLES
    MISSING_GAMEWEEKS,    \* configuration: None, or the override sequence
    REGENERATE_MERGED,    \* configuration: BOOLEAN
    gw_dir,               \* data/<season>/gws/: [exists, entries]
    player_dir,           \* data/<season>/players/: [exists, entries]
    pc,                   \* position of main() / of the scanning driver
    existing,             \* main(): local `existing`
    available,            \* main(): local `available`
    gameweeks_to_collect, \* main(): local `gameweeks_to_collect`
    idx,                  \* main(): number of loop iterations started
    calls,                \* collaborator calls made by the current run
    writes,               \* file names written by the current run
    exc,                  \* exception that left main(), or "none"
    run,                  \* number of the current run of main()
    clean,                \* every collect_gw call of this run wrote its file
    prev_clean,           \* `clean` of the previous run
    prev_calls,           \* `calls` of the previous run
    examined,             \* entries of player_dir looked at by the last probe
    us_rows,              \* understat_player.csv rows
    fpl_rows,             \* player_idlist.csv rows
    ustat_players,        \* match_ids: dict, as a sequence of <<key, value>>
    fpl_players,          \* match_ids: dict, as a sequence of <<key, value>>
    players,              \* match_ids: list of PlayerID
    found,                \* match_ids: keys of dict `found`
    id_dict,              \* lines of id_dict.csv, or None before the write
    mpc                   \* position of match_ids

gwvars == <<MISSING_GAMEWEEKS, REGENERATE_MERGED, gw_dir, player_dir, pc,
            existing, available, gameweeks_to_collect, idx, calls, writes,
            exc, run, clean, prev_clean, prev_calls,
            examined>>
mvars == <<us_rows, fpl_rows, ustat_players, fpl_players, players, found,
           id_dict, mpc>>
vars == <<gwvars, mvars>>

\* MISSING_GAMEWEEKS is None, or a list
None == [none |-> TRUE]
List(l) == [none |-> FALSE, list |-> l]

(***************************************************************************)
(* Bounds of the model.                                                    *)
(***************************************************************************)
MaxGW == 4        \* round numbers are 1..MaxGW
MaxFiles == 3     \* stray entries in the gameweek directory (scan driver)
MaxPlayers == 3   \* entries of the players directory (scan driver)
MaxOverride == 2  \* length of an explicit MISSING_GAMEWEEKS list
MaxRuns == 2      \* consecutive runs of main()
MaxRows == 3      \* rows of each identity export

Range(s) == {s[i] : i \in 1..Len(s)}

(***************************************************************************)
(* Python string primitives.                                               *)
(***************************************************************************)
Digits == <<"0", "1", "2", "3", "4", "5", "6", "7", "8", "9">>
IsDigit(c) == \E i \in 1..10 : Digits[i] = c
DigitVal(c) == (CHOOSE i \in 1..10 : Digits[i] = c) - 1

startswith(s, p) == Len(s) >= Len(p) /\ SubSeq(s, 1, Len(p)) = p
endswith(s, p) == Len(s) >= Len(p) /\ SubSeq(s, Len(s) - Len(p) + 1, Len(s)) = p

\* s[a:-b] for a, b > 0
Slice(s, a, b) == SubSeq(s, a + 1, Len(s) - b)

RECURSIVE LStrip(_)
LStrip(s) == IF s # <<>> /\ Head(s) = " " THEN LStrip(Tail(s)) ELSE s
RECURSIVE RStrip(_)
RStrip(s) == IF s # <<>> /\ s[Len(s)] = " " THEN RStrip(SubSeq(s, 1, Len(s) - 1)) ELSE s

\* digits, with single underscores allowed between digits
ValidDigits(s) ==
    /\ s # <<>>
    /\ IsDigit(s[1]) /\ IsDigit(s[Len(s)])
    /\ \A i \in 1..Len(s) : IsDigit(s[i]) \/ s[i] = "_"
    /\ \A i \in 1..(Len(s) - 1) : ~(s[i] = "_" /\ s[i + 1] = "_")

RECURSIVE DigitsValue(_)
DigitsValue(s) ==
    IF s = <<>> THEN 0
    ELSE LET init == SubSeq(s, 1, Len(s) - 1)
             c == s[Len(s)]
         IN IF c = "_" THEN DigitsValue(init) ELSE 10 * DigitsValue(init) + DigitVal(c)

\* int(s): [ok |-> FALSE] stands for ValueError
PyInt(s) ==
    LET t == RStrip(LStrip(s))
        signed == t # <<>> /\ Head(t) \in {"+", "-"}
        body == IF signed THEN Tail(t) ELSE t
    IN IF ValidDigits(body)
       THEN [ok |-> TRUE,
             val |-> (IF signed /\ Head(t) = "-" THEN -1 ELSE 1) * DigitsValue(body)]
       ELSE [ok |-> FALSE, val |-> 0]

RECURSIVE NatStr(_)
NatStr(n) == IF n < 10 THEN <<Digits[n + 1]>> ELSE NatStr(n \div 10) \o <<Digits[(n % 10) + 1]>>

\* A Python value that is either an int or a str, tagged by its type.
IntVal(n) == [int |-> n]
StrVal(s) == [str |-> s]

\* str(x): decimal text of an int, a str unchanged
PyStr(x) ==
    IF "int" \in DOMAIN x
    THEN (IF x.int < 0 THEN <<"-">> \o NatStr(-(x.int)) ELSE NatStr(x.int))
    ELSE x.str

SetMin(S) == CHOOSE x \in S : \A y \in S : x <= y

\* sorted(S) for a set of ints
RECURSIVE sorted(_)
sorted(S) == IF S = {} THEN <<>> ELSE <<SetMin(S)>> \o sorted(S \ {SetMin(S)})

(***************************************************************************)
(* File names.                                                             *)
(***************************************************************************)
Gw == <<"g", "w">>
Csv == <<".", "c", "s", "v">>
MergedGw == <<"m", "e", "r", "g", "e", "d", "_", "g", "w", ".", "c", "s", "v">>

\* the per-unit file collect_gw materialises: gw<n>.csv
GwFileName(n) == Gw \o PyStr(IntVal(n)) \o Csv

(***************************************************************************)
(* get_existing_gameweeks(gw_dir)                                          *)
(***************************************************************************)
\* variant: the extension is not tested
QualifiesAnyExtension(fname) == startswith(fname, Gw) /\ fname # MergedGw

Qualifies(fname) == startswith(fname, Gw) /\ endswith(fname, Csv) /\ fname # MergedGw

\* variant: the extension is cut one character short, fname[2:-3]
get_existing_gameweeks_short_cut(dir) ==
    IF dir.exists
    THEN {PyInt(Slice(fname, 2, 3)).val :
            fname \in {f \in dir.entries : Qualifies(f) /\ PyInt(Slice(f, 2, 3)).ok}}
    ELSE {}

get_existing_gameweeks(dir) ==
    IF dir.exists
    THEN {PyInt(Slice(fname, 2, 4)).val :
            fname \in {f \in dir.entries : Qualifies(f) /\ PyInt(Slice(f, 2, 4)).ok}}
    ELSE {}

(***************************************************************************)
(* get_available_gameweeks(player_dir)                                     *)
(* An entry of the players directory is [isdir, has_gw, rounds]: whether   *)
(* it is a directory, whether it holds gw.csv, and the `round` column of   *)
(* that file.  The result is [raised, val, examined]: whether an exception *)
(* left the function, the returned set, and the entries the loop visited.  *)
(***************************************************************************)
\* variant: no break after the first player that holds gw.csv
RECURSIVE ProbeAll(_, _)
ProbeAll(entries, i) ==
    IF i > Len(entries)
    THEN [raised |-> "none", val |-> {}, examined |-> 1..Len(entries)]
    ELSE LET rest == ProbeAll(entries, i + 1)
         IN IF entries[i].isdir /\ entries[i].has_gw
            THEN [rest EXCEPT !.val = @ \cup {PyInt(r).val : r \in Range(entries[i].rounds)}]
            ELSE rest

RECURSIVE ProbeFrom(_, _)
ProbeFrom(entries, i) ==
    IF i > Len(entries)
    THEN [raised |-> "none", val |-> {}, examined |-> 1..Len(entries)]
    ELSE IF entries[i].isdir /\ entries[i].has_gw
         THEN IF \A r \in Range(entries[i].rounds) : PyInt(r).ok
              THEN [raised |-> "none",
                    val |-> {PyInt(r).val : r \in Range(entries[i].rounds)},
                    examined |-> 1..i]
              ELSE [raised |-> "ValueError", val |-> {}, examined |-> 1..i]
         ELSE ProbeFrom(entries, i + 1)

Probe(dir) ==
    IF dir.exists
    THEN ProbeFrom(dir.entries, 1)
    ELSE [raised |-> "FileNotFoundError", val |-> {}, examined |-> {}]

get_available_gameweeks(dir) == Probe(dir).val

(***************************************************************************)
(* main() of generate-missing-gameweeks.py                                 *)
(***************************************************************************)
Reverse(seq) == [i \in 1..Len(seq) |-> seq[Len(seq) + 1 - i]]

\* variant: the difference is listed without sorted(), in some other order
GapUnsorted(ex, av) == Reverse(sorted(av \ ex))

\* line 64: the planned gap
Gap(ex, av) == sorted(av \ ex)

CollectCall(gw) == [fn |-> "collect_gw", gw |-> gw]
RegenerateCall == [fn |-> "regenerate_merged_gw", gw |-> 0]

\* Outcomes of one collect_gw call: the file is written; the call returns
\* without having written it; an exception leaves the call.
CollectOutcomes == {"written", "not_written", "raised"}

\* collect_gw(gw, player_dir, gw_dir, season_dir) materialising gw<gw>.csv
collect_gw(dir, gw) == [exists |-> TRUE, entries |-> dir.entries \cup {GwFileName(gw)}]

\* regenerate_merged_gw(gw_dir) rebuilding merged_gw.csv
regenerate_merged_gw(dir) == [exists |-> TRUE, entries |-> dir.entries \cup {MergedGw}]

\* lines 54-67: decide which gameweeks to collect
Plan ==
    /\ pc = "start"
    /\ IF ~MISSING_GAMEWEEKS.none
       THEN /\ gameweeks_to_collect' = MISSING_GAMEWEEKS.list
            /\ pc' = "loop"
            /\ UNCHANGED <<existing, available, examined, exc>>
       ELSE LET probe == Probe(player_dir)
            IN /\ existing' = get_existing_gameweeks(gw_dir)
               /\ examined' = probe.examined
               /\ IF probe.raised # "none"
                  THEN /\ exc' = probe.raised
                       /\ pc' = "raised"
                       /\ UNCHANGED <<available, gameweeks_to_collect>>
                  ELSE /\ available' = get_available_gameweeks(player_dir)
                       /\ gameweeks_to_collect' = Gap(existing', available')
                       /\ pc' = "loop"
                       /\ exc' = exc
    /\ UNCHANGED <<MISSING_GAMEWEEKS, REGENERATE_MERGED, gw_dir, player_dir, idx,
                   calls, writes, run, clean, prev_clean, prev_calls, mvars>>

\* lines 74-76: one iteration of the collection loop
Collect ==
    /\ pc = "loop"
    /\ idx < Len(gameweeks_to_collect)
    /\ LET gw == gameweeks_to_collect[idx + 1]
       IN /\ calls' = Append(calls, CollectCall(gw))
          /\ idx' = idx + 1
          /\ \E outcome \in CollectOutcomes :
                /\ IF outcome = "written"
                   THEN /\ gw_dir' = collect_gw(gw_dir, gw)
                        /\ writes' = writes \cup {GwFileName(gw)}
                        /\ clean' = clean
                   ELSE /\ clean' = FALSE
                        /\ UNCHANGED <<gw_dir, writes>>
                /\ IF outcome = "raised"
                   THEN pc' = "raised" /\ exc' = "CollectionFailure"
                   ELSE UNCHANGED <<pc, exc>>
    /\ UNCHANGED <<MISSING_GAMEWEEKS, REGENERATE_MERGED, player_dir, existing,
                   available, gameweeks_to_collect, run, prev_clean, prev_calls, examined, mvars>>

\* lines 78-81: after the loop (or after "No missing gameweeks to collect.")
Regenerate ==
    /\ pc = "loop"
    /\ idx = Len(gameweeks_to_collect)
    /\ IF REGENERATE_MERGED
       THEN /\ calls' = Append(calls, RegenerateCall)
            /\ gw_dir' = regenerate_merged_gw(gw_dir)
            /\ writes' = writes \cup {MergedGw}
       ELSE UNCHANGED <<calls, gw_dir, writes>>
    /\ pc' = "done"
    /\ UNCHANGED <<MISSING_GAMEWEEKS, REGENERATE_MERGED, player_dir, existing,
                   available, gameweeks_to_collect, idx, exc, run, clean,
                   prev_clean, prev_calls, examined, mvars>>

\* lines 84-85: the script is started again after the previous run ended
Rerun ==
    /\ pc \in {"done", "raised"}
    /\ run < MaxRuns
    /\ run' = run + 1
    /\ prev_clean' = clean
    /\ prev_calls' = calls
    /\ clean' = TRUE
    /\ pc' = "start"
    /\ existing' = {}
    /\ available' = {}
    /\ gameweeks_to_collect' = <<>>
    /\ idx' = 0
    /\ calls' = <<>>
    /\ writes' = {}
    /\ exc' = "none"
    /\ examined' = {}
    /\ UNCHANGED <<MISSING_GAMEWEEKS, REGENERATE_MERGED, gw_dir, player_dir, mvars>>

(***************************************************************************)
(* Initial states.                                                         *)
(***************************************************************************)
Rounds == 1..MaxGW

\* the `round` column as written to gw.csv
RoundText(seq) == [i \in 1..Len(seq) |-> PyStr(IntVal(seq[i]))]

PlainFile == [isdir |-> FALSE, has_gw |-> FALSE, rounds |-> <<>>]
DirWithoutGw == [isdir |-> TRUE, has_gw |-> FALSE, rounds |-> <<>>]
DirWithGw(seq) == [isdir |-> TRUE, has_gw |-> TRUE, rounds |-> RoundText(seq)]

NoDir == [exists |-> FALSE, entries |-> {}]
NoPlayerDir == [exists |-> FALSE, entries |-> <<>>]

GwX == <<"g", "w", "X", ".", "c", "s", "v">>

\* gameweek directories main() is started on
MainGwDirs ==
    {NoDir} \cup
    {[exists |-> TRUE, entries |-> {GwFileName(n) : n \in S} \cup T] :
        S \in SUBSET Rounds, T \in SUBSET {MergedGw, GwX}}

\* players directories main() is started on
MainPlayerDirs ==
    {NoPlayerDir, [exists |-> TRUE, entries |-> <<>>]} \cup
    {[exists |-> TRUE, entries |-> <<PlainFile, DirWithGw(sorted(S))>>] : S \in SUBSET Rounds}

SeqsUpTo(S, n) == UNION {[1..k -> S] : k \in 0..n}

Overrides == {List(l) : l \in SeqsUpTo(Rounds, MaxOverride)}

InitMatchIdle ==
    /\ us_rows = <<>>
    /\ fpl_rows = <<>>
    /\ ustat_players = <<>>
    /\ fpl_players = <<>>
    /\ players = <<>>
    /\ found = {}
    /\ id_dict = <<>>
    /\ mpc = "idle"

InitLocals ==
    /\ pc = "start"
    /\ existing = {}
    /\ available = {}
    /\ gameweeks_to_collect = <<>>
    /\ idx = 0
    /\ calls = <<>>
    /\ writes = {}
    /\ exc = "none"
    /\ run = 1
    /\ clean = TRUE
    /\ prev_clean = FALSE
    /\ prev_calls = <<>>
    /\ examined = {}

Init ==
    /\ REGENERATE_MERGED \in BOOLEAN
    /\ \/ /\ MISSING_GAMEWEEKS = None
          /\ gw_dir \in MainGwDirs
          /\ player_dir \in MainPlayerDirs
       \/ /\ MISSING_GAMEWEEKS \in Overrides
          /\ gw_dir \in {NoDir, [exists |-> TRUE, entries |-> {GwFileName(1), MergedGw}]}
          /\ player_dir = [exists |-> TRUE, entries |-> <<DirWithGw(sorted(Rounds))>>]
    /\ InitLocals
    /\ InitMatchIdle

Next == Plan \/ Collect \/ Regenerate \/ Rerun

Spec == Init /\ [][Next]_vars

(***************************************************************************)
(* The two scanners on their own, over a wider range of directories.       *)
(***************************************************************************)
\* entry names a gameweek directory may hold besides gw<n>.csv
StrayNames ==
    { GwX,
      MergedGw,
      <<"g", "w", ".", "c", "s", "v">>,
      <<"g", "w", "0", "3", ".", "c", "s", "v">>,
      <<"g", "w", "-", "1", ".", "c", "s", "v">>,
      <<"g", "w", "+", "2", ".", "c", "s", "v">>,
      <<"g", "w", " ", "2", ".", "c", "s", "v">>,
      <<"g", "w", "1", "_", "0", ".", "c", "s", "v">>,
      <<"g", "w", "_", "1", ".", "c", "s", "v">>,
      <<"g", "w", "1", "-", ".", "c", "s", "v">>,
      <<"g", "w", "2", ".", "t", "x", "t">>,
      <<"x", "g", "w", "1", ".", "c", "s", "v">>,
      <<"g", "w", "3">>,
      <<"G", "W", "1", ".", "c", "s", "v">>,
      <<".", "c", "s", "v">> }

ScanNames == StrayNames \cup {GwFileName(n) : n \in Rounds}

ScanGwDirs ==
    {NoDir} \cup
    {[exists |-> TRUE, entries |-> E] :
        E \in {X \in SUBSET ScanNames : Cardinality(X) <= MaxFiles}}

ScanEntries ==
    {PlainFile, DirWithoutGw, DirWithGw(<<>>), DirWithGw(<<1>>), DirWithGw(<<2, 1, 2>>),
     DirWithGw(sorted(Rounds))}

ScanPlayerDirs ==
    {NoPlayerDir} \cup
    {[exists |-> TRUE, entries |-> e] : e \in SeqsUpTo(ScanEntries, MaxPlayers)}

InitScan ==
    /\ REGENERATE_MERGED = TRUE
    /\ MISSING_GAMEWEEKS = None
    /\ \/ gw_dir \in ScanGwDirs /\ player_dir = NoPlayerDir
       \/ gw_dir = NoDir /\ player_dir \in ScanPlayerDirs
    /\ InitLocals
    /\ InitMatchIdle

\* existing = get_existing_gameweeks(gw_dir)
ScanExisting ==
    /\ pc = "start"
    /\ existing' = get_existing_gameweeks(gw_dir)
    /\ pc' = "inventory"
    /\ UNCHANGED <<MISSING_GAMEWEEKS, REGENERATE_MERGED, gw_dir, player_dir,
                   available, gameweeks_to_collect, idx, calls, writes, exc, run,
                   clean, prev_clean, prev_calls, examined, mvars>>

\* available = get_available_gameweeks(player_dir)
ScanAvailable ==
    /\ pc = "start"
    /\ available' = get_available_gameweeks(player_dir)
    /\ exc' = Probe(player_dir).raised
    /\ examined' = Probe(player_dir).examined
    /\ pc' = "probe"
    /\ UNCHANGED <<MISSING_GAMEWEEKS, REGENERATE_MERGED, gw_dir, player_dir,
                   existing, gameweeks_to_collect, idx, calls, writes, run,
                   clean, prev_clean, prev_calls, mvars>>

NextScan == ScanExisting \/ ScanAvailable

SpecScan == InitScan /\ [][NextScan]_vars

(***************************************************************************)
(* Properties of the gap collection run (specification Spec).              *)
(***************************************************************************)
AutoDetect == MISSING_GAMEWEEKS.none

\* main() has passed line 64 in auto-detect mode
GapPlanned == AutoDetect /\ pc # "start" /\ exc \notin {"FileNotFoundError", "ValueError"}

StrictlyAscending(seq) == \A i, j \in 1..Len(seq) : i < j => seq[i] < seq[j]

CollectCalls(seq) == [i \in 1..Len(seq) |-> CollectCall(seq[i])]

RunEnded == pc \in {"done", "raised"}

\* C1: in auto-detect mode the planned sequence holds exactly the elements
\* of available minus existing, each once, in strictly ascending order.
C1_GapIsSortedDifference ==
    GapPlanned =>
        /\ Range(gameweeks_to_collect) = available \ existing
        /\ StrictlyAscending(gameweeks_to_collect)

C1_Witness ==
    /\ GapPlanned
    /\ Len(gameweeks_to_collect) >= 2
    /\ existing \cap available # {}
    /\ existing \ available # {}

\* C4: a failing collect_gw call does not abort the batch: no failure leaves
\* main(), and when the run ends collect_gw has been attempted for every
\* planned gameweek.
C4_FailureDoesNotAbortBatch ==
    /\ exc # "CollectionFailure"
    /\ (RunEnded /\ exc = "none") => idx = Len(gameweeks_to_collect)
    /\ (pc = "raised" /\ exc = "CollectionFailure") => idx = Len(gameweeks_to_collect)

\* C5 as stated: after a run whose collect_gw calls all wrote their files,
\* the next auto-detect run plans nothing, calls collect_gw zero times and
\* performs no writes.
C5_SecondRunWritesNothing ==
    (run >= 2 /\ prev_clean /\ AutoDetect) =>
        /\ gameweeks_to_collect = <<>>
        /\ \A i \in 1..Len(calls) : calls[i].fn # "collect_gw"
        /\ writes = {}

\* C5 as amended: after a run whose collect_gw calls all wrote their files,
\* the next auto-detect run plans nothing, calls collect_gw zero times and
\* writes no per-gameweek file; when REGENERATE_MERGED is set and the run
\* completes it still calls regenerate_merged_gw once, which is then its only
\* call and merged_gw.csv its only write.
C5_SecondRunCollectsNothing ==
    (run >= 2 /\ prev_clean /\ AutoDetect) =>
        /\ gameweeks_to_collect = <<>>
        /\ \A i \in 1..Len(calls) : calls[i].fn # "collect_gw"
        /\ writes \subseteq {MergedGw}
        /\ pc = "done" =>
              /\ calls = (IF REGENERATE_MERGED THEN <<RegenerateCall>> ELSE <<>>)
              /\ writes = (IF REGENERATE_MERGED THEN {MergedGw} ELSE {})

C5_Witness ==
    /\ run = 2 /\ prev_clean /\ AutoDetect
    /\ Len(prev_calls) >= 3
    /\ prev_calls[1].fn = "collect_gw" /\ prev_calls[2].fn = "collect_gw"
    /\ pc = "done"
    /\ REGENERATE_MERGED
    /\ available \subseteq existing
    /\ writes = {MergedGw}

\* C10: in every run of main() collect_gw is called once per element of the
\* planned sequence, in plan order (an override is used verbatim), and
\* regenerate_merged_gw is called exactly once when REGENERATE_MERGED is
\* true and never otherwise, after the last collect_gw call.
C10_CallTrace ==
    RunEnded =>
        /\ ~AutoDetect => gameweeks_to_collect = MISSING_GAMEWEEKS.list
        /\ calls = CollectCalls(gameweeks_to_collect)
                     \o (IF REGENERATE_MERGED THEN <<RegenerateCall>> ELSE <<>>)

(***************************************************************************)
(* Properties of the scanners (specification SpecScan).                    *)
(***************************************************************************)
\* fname is gw<body>.csv with <body> an integer literal denoting n
NamesGameweek(fname, n) ==
    \E i \in 1..(Len(fname) + 1), j \in 0..Len(fname) :
        LET body == SubSeq(fname, i, j)
        IN fname = Gw \o body \o Csv /\ PyInt(body).ok /\ PyInt(body).val = n

\* the integers an entry may denote in this model
ScanInts == (-1)..(MaxGW + 10)

\* C6: a missing directory is not an error: get_existing_gameweeks returns
\* the empty set for a missing gameweek directory and
\* get_available_gameweeks returns the empty set, without raising, for a
\* missing players directory.
C6_MissingDirectoriesAreEmpty ==
    /\ (pc = "inventory" /\ ~gw_dir.exists) => existing = {}
    /\ (pc = "probe" /\ ~player_dir.exists) => (exc = "none" /\ available = {})

\* C7: get_existing_gameweeks returns exactly the integers n for which some
\* entry is named gw<n>.csv with <n> an integer literal; merged_gw.csv,
\* names without the prefix or the extension and names with a non-integer
\* middle part contribute nothing.
C7_InventoryIsGwFiles ==
    pc = "inventory" =>
        /\ existing = {n \in ScanInts : \E f \in gw_dir.entries : NamesGameweek(f, n)}
        /\ \A n \in Rounds : GwFileName(n) \in gw_dir.entries => n \in existing
        /\ gw_dir.entries \subseteq {GwX, MergedGw, Gw \o Csv} => existing = {}
        /\ gw_dir.entries = {GwFileName(3), GwX, MergedGw} => existing = {3}

C7_Witness ==
    /\ pc = "inventory"
    /\ gw_dir.entries = {GwFileName(3), GwX, MergedGw}
    /\ existing = {3}

FirstWithGw(entries) ==
    LET hits == {i \in 1..Len(entries) : entries[i].isdir /\ entries[i].has_gw}
    IN IF hits = {} THEN 0 ELSE SetMin(hits)

\* C9: get_available_gameweeks returns exactly the round values of gw.csv of
\* the first subdirectory, in enumeration order, that holds a gw.csv; entries
\* before it are skipped, no entry after it is examined, and without such a
\* subdirectory the result is the empty set.
C9_FirstPlayerDecides ==
    (pc = "probe" /\ player_dir.exists) =>
        LET entries == player_dir.entries
            k == FirstWithGw(entries)
        IN /\ exc = "none"
           /\ IF k = 0
              THEN available = {} /\ examined = 1..Len(entries)
              ELSE /\ available = {n \in ScanInts :
                                     PyStr(IntVal(n)) \in Range(entries[k].rounds)}
                   /\ examined = 1..k

C9_Witness ==
    /\ pc = "probe"
    /\ player_dir.exists
    /\ Len(player_dir.entries) = 3
    /\ FirstWithGw(player_dir.entries) = 2
    /\ player_dir.entries[3].has_gw
    /\ player_dir.entries[3].rounds # player_dir.entries[2].rounds
    /\ available = {1, 2}
    /\ examined = {1, 2}

(***************************************************************************)
(* match_ids(understat_dir, data_dir) of understat.py                      *)
(* A dict is the sequence of its <<key, value>> items in insertion order.  *)
(***************************************************************************)
DictHas(d, k) == \E i \in 1..Len(d) : d[i][1] = k
DictGet(d, k) == d[CHOOSE i \in 1..Len(d) : d[i][1] = k][2]

\* d[k] = v: a new key goes last, a known key keeps its place
DictSet(d, k, v) ==
    IF DictHas(d, k)
    THEN [i \in 1..Len(d) |-> IF d[i][1] = k THEN <<k, v>> ELSE d[i]]
    ELSE Append(d, <<k, v>>)

\* lines 143-145
RECURSIVE UstatIndex(_)
UstatIndex(rows) ==
    IF rows = <<>> THEN <<>>
    ELSE LET row == rows[Len(rows)]
         IN DictSet(UstatIndex(SubSeq(rows, 1, Len(rows) - 1)), row.player_name, row.id)

\* line 151: the key of a player_idlist.csv row
FplName(row) == row.first_name \o <<" ">> \o row.second_name

\* lines 148-151
RECURSIVE FplIndex(_)
FplIndex(rows) ==
    IF rows = <<>> THEN <<>>
    ELSE LET row == rows[Len(rows)]
         IN DictSet(FplIndex(SubSeq(rows, 1, Len(rows) - 1)), FplName(row), row.id)

\* class PlayerID
PlayerID(us_id, fpl_id, us_name, fpl_name) ==
    [us_id |-> PyStr(us_id), fpl_id |-> PyStr(fpl_id),
     us_name |-> us_name, fpl_name |-> fpl_name]

\* lines 156-162: the record of one item of ustat_players
UstatRecord(k, v, fpl) ==
    IF DictHas(fpl, k)
    THEN PlayerID(StrVal(v), StrVal(DictGet(fpl, k)), k, k)
    ELSE PlayerID(StrVal(v), IntVal(-1), k, <<>>)

\* variant: the sentinel and the id change sides
FplOnlyRecordSwapped(k, v) == PlayerID(StrVal(v), IntVal(-1), k, <<>>)

\* line 166: the record of an item of fpl_players that was not found
FplOnlyRecord(k, v) == PlayerID(IntVal(-1), StrVal(v), <<>>, k)

\* variant: the matched records are listed before the Understat-only ones
UstatLoopMatchesFirst(us, fpl) ==
    LET all == [i \in 1..Len(us) |-> UstatRecord(us[i][1], us[i][2], fpl)]
    IN SelectSeq(all, LAMBDA r : r.fpl_name # <<>>) \o
       SelectSeq(all, LAMBDA r : r.fpl_name = <<>>)

\* lines 155-162: the list after the loop over ustat_players.items()
UstatLoop(us, fpl) == [i \in 1..Len(us) |-> UstatRecord(us[i][1], us[i][2], fpl)]

\* lines 159: the keys marked found by that loop
FoundKeys(us, fpl) == {us[i][1] : i \in {j \in 1..Len(us) : DictHas(fpl, us[j][1])}}

\* variant: the `not in found` test is missing
FplLoopUnfiltered(fpl, fnd) == [i \in 1..Len(fpl) |-> FplOnlyRecord(fpl[i][1], fpl[i][2])]

\* lines 164-167: the records added by the loop over fpl_players.items()
FplLoop(fpl, fnd) ==
    LET rest == SelectSeq(fpl, LAMBDA kv : kv[1] \notin fnd)
    IN [i \in 1..Len(rest) |-> FplOnlyRecord(rest[i][1], rest[i][2])]

Comma == <<",">>
Newline == <<"\n">>
Header ==
    <<"U", "n", "d", "e", "r", "s", "t", "a", "t", "_", "I", "D", ",",
      "F", "P", "L", "_", "I", "D", ",",
      "U", "n", "d", "e", "r", "s", "t", "a", "t", "_", "N", "a", "m", "e", ",",
      "F", "P", "L", "_", "N", "a", "m", "e", "\n">>

\* line 172
Line(p) == p.us_id \o Comma \o p.fpl_id \o Comma \o p.us_name \o Comma \o p.fpl_name \o Newline

\* lines 141-145
ReadUnderstat ==
    /\ mpc = "start"
    /\ ustat_players' = UstatIndex(us_rows)
    /\ mpc' = "read_fpl"
    /\ UNCHANGED <<us_rows, fpl_rows, fpl_players, players, found, id_dict, gwvars>>

\* lines 147-151
ReadFpl ==
    /\ mpc = "read_fpl"
    /\ fpl_players' = FplIndex(fpl_rows)
    /\ mpc' = "match"
    /\ UNCHANGED <<us_rows, fpl_rows, ustat_players, players, found, id_dict, gwvars>>

\* lines 153-162
MatchUnderstat ==
    /\ mpc = "match"
    /\ players' = UstatLoop(ustat_players, fpl_players)
    /\ found' = FoundKeys(ustat_players, fpl_players)
    /\ mpc' = "residue"
    /\ UNCHANGED <<us_rows, fpl_rows, ustat_players, fpl_players, id_dict, gwvars>>

\* lines 164-167
AppendFplOnly ==
    /\ mpc = "residue"
    /\ players' = players \o FplLoop(fpl_players, found)
    /\ mpc' = "write"
    /\ UNCHANGED <<us_rows, fpl_rows, ustat_players, fpl_players, found, id_dict, gwvars>>

\* lines 169-174
WriteIdDict ==
    /\ mpc = "write"
    /\ id_dict' = <<Header>> \o [i \in 1..Len(players) |-> Line(players[i])]
    /\ mpc' = "done"
    /\ UNCHANGED <<us_rows, fpl_rows, ustat_players, fpl_players, players, found, gwvars>>

UsNames == {<<"a", " ", "b">>, <<"c", " ", "d">>}
UsIds == {<<"1">>, <<"2">>}
FplFirstNames == {<<"a">>, <<"e">>}
FplSecondNames == {<<"b">>}
FplIds == {<<"7">>, <<"8">>}

UsRows == [player_name : UsNames, id : UsIds]
FplRows == [first_name : FplFirstNames, second_name : FplSecondNames, id : FplIds]

InitMatch ==
    /\ us_rows \in SeqsUpTo(UsRows, MaxRows)
    /\ fpl_rows \in SeqsUpTo(FplRows, MaxRows)
    /\ ustat_players = <<>>
    /\ fpl_players = <<>>
    /\ players = <<>>
    /\ found = {}
    /\ id_dict = <<>>
    /\ mpc = "start"
    /\ REGENERATE_MERGED = TRUE
    /\ MISSING_GAMEWEEKS = None
    /\ gw_dir = NoDir
    /\ player_dir = NoPlayerDir
    /\ InitLocals

NextMatch == ReadUnderstat \/ ReadFpl \/ MatchUnderstat \/ AppendFplOnly \/ WriteIdDict

SpecMatch == InitMatch /\ [][NextMatch]_vars

(***************************************************************************)
(* Properties of match_ids (specification SpecMatch).                      *)
(***************************************************************************)
A_names == {us_rows[i].player_name : i \in 1..Len(us_rows)}
B_names == {FplName(fpl_rows[i]) : i \in 1..Len(fpl_rows)}

\* the id of the last row carrying the name
LastUsId(n) ==
    us_rows[CHOOSE i \in 1..Len(us_rows) :
              /\ us_rows[i].player_name = n
              /\ \A j \in (i + 1)..Len(us_rows) : us_rows[j].player_name # n].id
LastFplId(n) ==
    fpl_rows[CHOOSE i \in 1..Len(fpl_rows) :
               /\ FplName(fpl_rows[i]) = n
               /\ \A j \in (i + 1)..Len(fpl_rows) : FplName(fpl_rows[j]) # n].id

Sentinel == <<"-", "1">>
RecordsNaming(n) == {i \in 1..Len(players) : players[i].us_name = n \/ players[i].fpl_name = n}

IsMatched(r) == r.us_name # <<>> /\ r.fpl_name # <<>>
IsUstatOnly(r) == r.us_name # <<>> /\ r.fpl_name = <<>>
IsFplOnly(r) == r.us_name = <<>> /\ r.fpl_name # <<>>

\* C2: match_ids emits as many records as there are names in the union of
\* the two name indexes, and every such name appears in exactly one record.
C2_FullOuterJoin ==
    mpc = "done" =>
        /\ Len(players) = Cardinality(A_names \cup B_names)
        /\ Len(id_dict) = Len(players) + 1
        /\ \A n \in A_names \cup B_names : Cardinality(RecordsNaming(n)) = 1

C2_Witness ==
    /\ mpc = "done"
    /\ A_names \cap B_names # {}
    /\ A_names \ B_names # {}
    /\ B_names \ A_names # {}
    /\ Len(us_rows) > Cardinality(A_names)
    /\ Len(players) = 3

\* C3: an Understat-only name yields a record with FPL id "-1" and empty FPL
\* name, an FPL-only name a record with Understat id "-1" and empty
\* Understat name, and a name on both sides a record with both ids and the
\* name on both sides.
C3_Sentinels ==
    mpc = "done" =>
        \A n \in A_names \cup B_names :
            LET expected ==
                    IF n \in A_names /\ n \in B_names
                    THEN [us_id |-> LastUsId(n), fpl_id |-> LastFplId(n),
                          us_name |-> n, fpl_name |-> n]
                    ELSE IF n \in A_names
                    THEN [us_id |-> LastUsId(n), fpl_id |-> Sentinel,
                          us_name |-> n, fpl_name |-> <<>>]
                    ELSE [us_id |-> Sentinel, fpl_id |-> LastFplId(n),
                          us_name |-> <<>>, fpl_name |-> n]
            IN /\ RecordsNaming(n) # {}
               /\ \A i \in RecordsNaming(n) :
                     /\ players[i] = expected
                     /\ id_dict[i + 1] = expected.us_id \o <<",">> \o expected.fpl_id \o <<",">>
                                           \o expected.us_name \o <<",">> \o expected.fpl_name
                                           \o <<"\n">>

C3_Witness ==
    /\ mpc = "done"
    /\ \E i, j, k \in 1..Len(players) :
          /\ IsUstatOnly(players[i]) /\ players[i].fpl_id = Sentinel
          /\ IsFplOnly(players[j]) /\ players[j].us_id = Sentinel
          /\ IsMatched(players[k])

\* C8 as stated: matched records come first and FPL-only records last: no
\* matched record is preceded by an unmatched record, and every FPL-only
\* record follows every record that carries an Understat id.
C8_MatchesFirst ==
    mpc = "done" =>
        /\ \A i, j \in 1..Len(players) :
              (i < j /\ IsMatched(players[j])) => IsMatched(players[i])
        /\ \A i, j \in 1..Len(players) :
              (IsFplOnly(players[i]) /\ ~IsFplOnly(players[j])) => j < i

\* C8 as amended: the records that carry an Understat id, matched and
\* Understat-only alike, come first, one per key of the Understat index in
\* that index's iteration order; the FPL-only records follow, in the FPL
\* index's iteration order.
C8_UnderstatOrderThenFplOnly ==
    mpc = "done" =>
        LET k == Len(ustat_players)
            rest == SelectSeq(fpl_players, LAMBDA kv : ~DictHas(ustat_players, kv[1]))
        IN /\ Len(players) = k + Len(rest)
           /\ \A i \in 1..k :
                 /\ ~IsFplOnly(players[i])
                 /\ players[i].us_name = ustat_players[i][1]
                 /\ IsMatched(players[i]) <=> DictHas(fpl_players, ustat_players[i][1])
           /\ \A i \in 1..Len(rest) :
                 /\ IsFplOnly(players[k + i])
                 /\ players[k + i].fpl_name = rest[i][1]
           /\ \A i \in 1..Len(players) : id_dict[i + 1] = Line(players[i])

C8_Witness ==
    /\ mpc = "done"
    /\ Len(players) >= 3
    /\ IsUstatOnly(players[1])
    /\ IsMatched(players[2])
    /\ IsFplOnly(players[3])

====
